---- MODULE Spec2Model ----
(***************************************************************************)
(* The three FQDN managers of enum/brute.go (BruteManager,                 *)
(* AlterationsManager, GuessManager) as a state machine.                   *)
(*                                                                         *)
(* A behaviour is the life of ONE manager object (mgr says which of the    *)
(* three implementations of the FQDNManager interface was constructed):    *)
(* the managers share nothing but the immutable configuration, so the      *)
(* fields of the other two stay at their constructed value.                *)
(*                                                                         *)
(* A DNS name is the sequence of its labels, i.e. what strings.Split(name, *)
(* ".") returns: "a.example.com" is <<"a","example","com">> and the empty  *)
(* string is <<"">> (Split never returns an empty slice).  A pointer is a  *)
(* sequence of length 0 (nil) or 1.                                        *)
(***************************************************************************)
EXTENDS Integers, Sequences, FiniteSets, TLC

VARIABLES
    mgr,            \* "brute" | "alts" | "guess": the manager constructed
    Config,         \* r.enum.Config (never written by these managers)
    \* BruteManager fields
    mutex,          \* sync.Mutex embedded in the manager: "free" | "held"
    queue,          \* r.queue
    filter,         \* r.filter: the names the string filter has recorded
    wordlistIdx,    \* r.wordlistIdx
    curReq,         \* r.curReq (<<>> is nil)
    \* AlterationsManager fields
    inQueue,        \* r.inQueue
    outQueue,       \* r.outQueue
    altState,       \* r.altState
    \* GuessManager fields
    markovModel,    \* r.markovModel
    ttLastOutput,   \* r.ttLastOutput
    \* the callers: where each one stands inside its call, and its locals
    inPc,           \* InputName threads: "idle" | "L57"
    inReq,          \* InputName threads: the request being enqueued
    outPc,          \* the OutputNames caller
    num,            \* OutputNames: argument
    count,          \* OutputNames: local count
    results,        \* OutputNames: local results
    word,           \* BruteManager.OutputNames: local word
    guesses,        \* GuessManager.OutputNames: local guesses
    stopPc,         \* the Stop caller
    \* observation (history) variables, read by no action's guard
    out,            \* what the last finished OutputNames call returned
    accepted,       \* requests appended to r.queue since construction/Stop
    taken,          \* requests OutputNames has made r.curReq since then
    emitted,        \* names OutputNames has put in results since then
    fresh           \* no InputName call since construction or the last Stop

vars == <<mgr, Config, mutex, queue, filter, wordlistIdx, curReq,
          inQueue, outQueue, altState, markovModel, ttLastOutput,
          inPc, inReq, outPc, num, count, results, word, guesses, stopPc,
          out, accepted, taken, emitted, fresh>>

bruteVars == <<mutex, queue, filter, wordlistIdx, curReq>>
altsVars == <<inQueue, outQueue, altState>>
guessVars == <<markovModel, ttLastOutput>>
outLocals == <<num, count, results, word, guesses>>
history == <<out, accepted, taken, emitted, fresh>>

----------------------------------------------------------------------------
(* Bounds of the model *)

MaxWords == 2       \* longest configured wordlist
MaxNum == 2         \* largest num passed to OutputNames
MaxQueue == 2       \* longest AlterationsManager input queue

Threads == {"t1", "t2"}     \* goroutines calling InputName

Nums == 0..MaxNum

SeqsUpTo(S, n) == UNION {[1..k -> S] : k \in 0..n}

----------------------------------------------------------------------------
(* Names, requests and the collaborators of the managers *)

EmptyStr == <<"">>

Nil == <<>>

Words == {"", "www", "api"}

Domains == {<<"example", "com">>}

\* requests.SanitizeDNSRequest: lower-cases the name and the domain
ToLower(label) ==
    IF label = "A" THEN "a" ELSE IF label = "A1" THEN "a1" ELSE label

LowerName(name) == [i \in DOMAIN name |-> ToLower(name[i])]

SanitizeDNSRequest(req) ==
    [req EXCEPT !.Name = LowerName(req.Name), !.Domain = LowerName(req.Domain)]

IsSuffix(d, name) ==
    /\ Len(d) <= Len(name)
    /\ SubSeq(name, Len(name) - Len(d) + 1, Len(name)) = d

\* Config.IsDomainInScope: the name is under a configured domain
IsDomainInScope(name) == \E d \in Domains : IsSuffix(d, name)

\* Config.WhichDomain: the configured domain the name is under, or ""
WhichDomain(name) ==
    IF IsDomainInScope(name)
    THEN CHOOSE d \in Domains : IsSuffix(d, name)
    ELSE EmptyStr

\* Enumeration.hasCNAMERecord / hasARecords over the attached records
hasCNAMERecord(req) == "CNAME" \in req.Records

hasARecords(req) == "A" \in req.Records

\* the requests the callers pass to InputName
InputNames == {
    [Name |-> <<"a", "example", "com">>, Domain |-> <<"example", "com">>],
    [Name |-> <<"A", "example", "com">>, Domain |-> <<"example", "com">>],
    [Name |-> <<"b", "example", "com">>, Domain |-> <<"example", "com">>],
    [Name |-> <<"example", "com">>, Domain |-> <<"example", "com">>],
    [Name |-> <<"example", "com">>, Domain |-> <<"corp", "example", "com">>],
    [Name |-> <<"x", "other", "org">>, Domain |-> <<"other", "org">>],
    [Name |-> EmptyStr, Domain |-> <<"example", "com">>],
    [Name |-> <<"a", "example", "com">>, Domain |-> EmptyStr] }

RecordSets == { {}, {"A"}, {"CNAME"}, {"A", "CNAME"}, {"TXT"} }

\* a *requests.DNSRequest argument: nil or a request.  Only BruteManager
\* reads the attached records, and it has no use for a second domain.
BruteArgs ==
    {Nil} \cup
    { <<[Name |-> n.Name, Domain |-> n.Domain, Records |-> rs]>> :
        n \in {m \in InputNames : Len(m.Domain) <= 2}, rs \in RecordSets }

\* the requests passed to the InputName of the other two managers, which
\* compare the depth of the name with that of the domain
AltsNames == {
    [Name |-> <<"a1", "example", "com">>, Domain |-> <<"example", "com">>],
    [Name |-> <<"A1", "example", "com">>, Domain |-> <<"example", "com">>],
    [Name |-> <<"x-y", "example", "com">>, Domain |-> <<"example", "com">>],
    [Name |-> <<"example", "com">>, Domain |-> <<"example", "com">>],
    [Name |-> <<"example", "com">>, Domain |-> <<"corp", "example", "com">>],
    [Name |-> <<"x", "other", "org">>, Domain |-> <<"other", "org">>],
    [Name |-> EmptyStr, Domain |-> <<"example", "com">>],
    [Name |-> <<"a1", "example", "com">>, Domain |-> EmptyStr] }

AltsArgs ==
    {Nil} \cup
    { <<[Name |-> n.Name, Domain |-> n.Domain, Records |-> {}]>> :
        n \in AltsNames }

\* what is read of a queued request once it is queued: the attached
\* records are read by InputName alone, before the append
Queued(req) == [Name |-> req.Name, Domain |-> req.Domain]

\* queue.Queue
QueueAppend(q, e) == Append(q, e)

QueueEmpty(q) == q = <<>>

QueueNext(q) == Head(q)

QueueRest(q) == Tail(q)

\* stringfilter.Filter.Duplicate: reports whether the name was recorded,
\* and records it
Duplicate(f, name) == name \in f

Recorded(f, name) == f \cup {name}

----------------------------------------------------------------------------
(* Construction *)

\* the configurations; a manager is given one that varies in what it reads
BaseConfig ==
    [BruteForcing |-> FALSE, Alterations |-> FALSE, Wordlist |-> <<>>,
     FlipNumbers |-> FALSE, AddNumbers |-> FALSE, FlipWords |-> FALSE,
     AddWords |-> FALSE, EditDistance |-> 0, MinForWordFlip |-> 3,
     AltWordlist |-> <<"dev">>]

BruteConfigs ==
    { [BaseConfig EXCEPT !.BruteForcing = b, !.Wordlist = w] :
        b \in BOOLEAN, w \in SeqsUpTo(Words, MaxWords) }

\* the alteration rules switched on together
RuleSets == {
    [FlipNumbers |-> FALSE, AddNumbers |-> FALSE, FlipWords |-> FALSE,
     AddWords |-> FALSE, EditDistance |-> 0, MinForWordFlip |-> 3],
    [FlipNumbers |-> TRUE, AddNumbers |-> FALSE, FlipWords |-> FALSE,
     AddWords |-> FALSE, EditDistance |-> 0, MinForWordFlip |-> 3],
    [FlipNumbers |-> TRUE, AddNumbers |-> FALSE, FlipWords |-> FALSE,
     AddWords |-> FALSE, EditDistance |-> 2, MinForWordFlip |-> 3],
    [FlipNumbers |-> FALSE, AddNumbers |-> FALSE, FlipWords |-> FALSE,
     AddWords |-> TRUE, EditDistance |-> 0, MinForWordFlip |-> 3],
    [FlipNumbers |-> FALSE, AddNumbers |-> TRUE, FlipWords |-> TRUE,
     AddWords |-> FALSE, EditDistance |-> 0, MinForWordFlip |-> 3],
    [FlipNumbers |-> FALSE, AddNumbers |-> TRUE, FlipWords |-> TRUE,
     AddWords |-> FALSE, EditDistance |-> 0, MinForWordFlip |-> 4] }

AltsConfigs ==
    { [BaseConfig EXCEPT !.Alterations = a,
          !.FlipNumbers = rs.FlipNumbers, !.AddNumbers = rs.AddNumbers,
          !.FlipWords = rs.FlipWords, !.AddWords = rs.AddWords,
          !.EditDistance = rs.EditDistance,
          !.MinForWordFlip = rs.MinForWordFlip] :
        a \in BOOLEAN, rs \in RuleSets }

GuessConfigs == { [BaseConfig EXCEPT !.Alterations = a] : a \in BOOLEAN }

\* alts.NewState: the wordlist, and the engine's own default thresholds
DefaultMinForWordFlip == 3

DefaultEditDistance == 1

NewState(wordlist) ==
    [Wordlist |-> wordlist, MinForWordFlip |-> DefaultMinForWordFlip,
     EditDistance |-> DefaultEditDistance]

\* NewAlterationsManager's engine state
NewAltState(cfg) ==
    [NewState(cfg.AltWordlist) EXCEPT
        !.MinForWordFlip = cfg.MinForWordFlip,
        !.EditDistance = cfg.EditDistance]

\* alts.NewMarkovModel
NewMarkovModel == [totalTrainings |-> 0]

NoOut == <<>>

InitManager(m, cfg) ==
    /\ mgr = m
    /\ Config = cfg
    /\ mutex = "free"
    /\ queue = <<>>
    /\ filter = {}
    /\ wordlistIdx = 0
    /\ curReq = Nil
    /\ inQueue = <<>>
    /\ outQueue = <<>>
    /\ altState = NewAltState(cfg)
    /\ markovModel = NewMarkovModel
    /\ ttLastOutput = 0
    /\ inPc = [t \in Threads |-> "idle"]
    /\ inReq = [t \in Threads |-> Nil]
    /\ outPc = "idle"
    /\ num = 0
    /\ count = 0
    /\ results = <<>>
    /\ word = ""
    /\ guesses = {}
    /\ stopPc = "idle"
    /\ out = NoOut
    /\ accepted = <<>>
    /\ taken = <<>>
    /\ emitted = <<>>
    /\ fresh = FALSE

\* what a finished OutputNames call hands back, with what the call saw
Returned(n, res) ==
    <<[mgr |-> mgr, num |-> n, results |-> res, fresh |-> fresh,
       trainings |-> markovModel.totalTrainings, last |-> ttLastOutput]>>

----------------------------------------------------------------------------
(* BruteManager *)

\* NewBruteManager
NewBruteManager == \E cfg \in BruteConfigs : InitManager("brute", cfg)

\* an InputName that never asks the filter
BruteRejectsUnrecorded(f, cfg, arg) ==
    \/ arg = Nil
    \/ arg[1].Name = EmptyStr
    \/ arg[1].Domain = EmptyStr
    \/ ~IsDomainInScope(SanitizeDNSRequest(arg[1]).Name)
    \/ ~cfg.BruteForcing
    \/ LET req == SanitizeDNSRequest(arg[1]) IN
         /\ req.Records # {}
         /\ (hasCNAMERecord(req) \/ ~hasARecords(req))

\* InputName, lines 37-55: everything up to the append
BruteRejects(f, cfg, arg) ==
    \/ arg = Nil
    \/ arg[1].Name = EmptyStr
    \/ arg[1].Domain = EmptyStr
    \/ ~IsDomainInScope(SanitizeDNSRequest(arg[1]).Name)
    \/ ~cfg.BruteForcing
    \/ Duplicate(f, SanitizeDNSRequest(arg[1]).Name)
    \/ LET req == SanitizeDNSRequest(arg[1]) IN
         /\ req.Records # {}
         /\ (hasCNAMERecord(req) \/ ~hasARecords(req))

\* an InputName that asks the filter before it looks at the flag
BruteFiltersFirst(cfg, arg) ==
    /\ arg # Nil
    /\ arg[1].Name # EmptyStr
    /\ arg[1].Domain # EmptyStr
    /\ IsDomainInScope(SanitizeDNSRequest(arg[1]).Name)

\* whether the call reaches r.filter.Duplicate, which records the name
BruteFilters(cfg, arg) ==
    /\ arg # Nil
    /\ arg[1].Name # EmptyStr
    /\ arg[1].Domain # EmptyStr
    /\ IsDomainInScope(SanitizeDNSRequest(arg[1]).Name)
    /\ cfg.BruteForcing

BruteInputName(t, arg) ==
    /\ mgr = "brute"
    /\ inPc[t] = "idle"
    /\ filter' = IF BruteFilters(Config, arg)
                 THEN Recorded(filter, SanitizeDNSRequest(arg[1]).Name)
                 ELSE filter
    /\ IF BruteRejects(filter, Config, arg)
       THEN UNCHANGED <<inPc, inReq>>
       ELSE /\ inPc' = [inPc EXCEPT ![t] = "L57"]
            /\ inReq' = [inReq EXCEPT ![t] = <<Queued(SanitizeDNSRequest(arg[1]))>>]
    /\ out' = NoOut
    /\ fresh' = FALSE
    /\ UNCHANGED <<mgr, Config, mutex, queue, wordlistIdx, curReq>>
    /\ UNCHANGED <<altsVars, guessVars, outPc, outLocals, stopPc>>
    /\ UNCHANGED <<accepted, taken, emitted>>

\* InputName, line 57
BruteAppend(t) ==
    /\ mgr = "brute"
    /\ inPc[t] = "L57"
    /\ queue' = QueueAppend(queue, inReq[t][1])
    /\ accepted' = Append(accepted, inReq[t][1])
    /\ inPc' = [inPc EXCEPT ![t] = "idle"]
    /\ inReq' = [inReq EXCEPT ![t] = Nil]
    /\ fresh' = FALSE
    /\ UNCHANGED <<mgr, Config, mutex, filter, wordlistIdx, curReq>>
    /\ UNCHANGED <<altsVars, guessVars, outPc, outLocals, stopPc>>
    /\ UNCHANGED <<out, taken, emitted>>

\* the request OutputNames builds at lines 102-107
BruteName(w, req) ==
    [Name |-> <<w>> \o req.Name, Domain |-> req.Domain,
     Tag |-> "BRUTE", Source |-> "Brute Forcing"]

\* OutputNames returns res (its locals are gone); the deferred Unlock runs
BruteReturn(n, res) ==
    /\ outPc' = "idle"
    /\ mutex' = "free"
    /\ out' = Returned(n, res)
    /\ num' = 0
    /\ count' = 0
    /\ results' = <<>>
    /\ word' = ""

\* an OutputNames that never looks at the flag
BruteDisabledNever(cfg) == FALSE

\* line 67: brute forcing is switched off
BruteDisabled(cfg) == ~cfg.BruteForcing

\* OutputNames, lines 61-71
BruteOutputNames(n) ==
    /\ mgr = "brute"
    /\ outPc = "idle"
    /\ mutex = "free"
    /\ IF BruteDisabled(Config)
       THEN BruteReturn(n, <<>>)
       ELSE /\ mutex' = "held"
            /\ outPc' = "L74"
            /\ num' = n
            /\ count' = 0
            /\ results' = <<>>
            /\ word' = ""
            /\ out' = NoOut
    /\ UNCHANGED <<mgr, Config, queue, filter, wordlistIdx, curReq>>
    /\ UNCHANGED <<altsVars, guessVars, inPc, inReq, guesses, stopPc>>
    /\ UNCHANGED <<accepted, taken, emitted, fresh>>

\* a resumed call that forgets the base it was expanding
NeedsBaseAlways(cur) == TRUE

\* line 74: there is no current base
NeedsBase(cur) == cur = Nil

\* OutputNames, lines 74-82
BruteNextBase ==
    /\ mgr = "brute"
    /\ outPc = "L74"
    /\ IF ~NeedsBase(curReq)
       THEN /\ outPc' = "L86"
            /\ UNCHANGED <<queue, curReq, taken>>
            /\ UNCHANGED <<mutex, out, num, count, results, word>>
       ELSE IF QueueEmpty(queue)
       THEN /\ BruteReturn(num, results)
            /\ UNCHANGED <<queue, curReq, taken>>
       ELSE /\ curReq' = <<QueueNext(queue)>>
            /\ queue' = QueueRest(queue)
            /\ taken' = Append(taken, QueueNext(queue))
            /\ outPc' = "L86"
            /\ UNCHANGED <<mutex, out, num, count, results, word>>
    /\ UNCHANGED <<mgr, Config, filter, wordlistIdx>>
    /\ UNCHANGED <<altsVars, guessVars, inPc, inReq, guesses, stopPc>>
    /\ UNCHANGED <<accepted, emitted, fresh>>

\* a budget test that lets one more name through
BudgetSpentLate(c, n) == c > n

\* line 86: only return the number of names requested
BudgetSpent(c, n) == c >= n

\* a bounds test that stops one word early
WordlistDoneEarly(idx, wordlist) == idx + 1 >= Len(wordlist)

\* line 91: all the words in the list have been used
WordlistDone(idx, wordlist) == idx >= Len(wordlist)

\* an OutputNames that drops a finished base without resetting the index
BruteNextWordKeepsIdx ==
    /\ mgr = "brute"
    /\ outPc = "L86"
    /\ IF BudgetSpent(count, num)
       THEN /\ BruteReturn(num, results)
            /\ UNCHANGED <<curReq, wordlistIdx>>
       ELSE IF WordlistDone(wordlistIdx, Config.Wordlist)
       THEN /\ curReq' = Nil
            /\ outPc' = "L74"
            /\ UNCHANGED <<mutex, out, num, count, results, word, wordlistIdx>>
       ELSE /\ word' = Config.Wordlist[wordlistIdx + 1]
            /\ wordlistIdx' = wordlistIdx + 1
            /\ outPc' = "L100"
            /\ UNCHANGED <<mutex, out, num, count, results, curReq>>
    /\ UNCHANGED <<mgr, Config, queue, filter>>
    /\ UNCHANGED <<altsVars, guessVars, inPc, inReq, guesses, stopPc>>
    /\ UNCHANGED <<accepted, taken, emitted, fresh>>

\* OutputNames, lines 86-98
BruteNextWord ==
    /\ mgr = "brute"
    /\ outPc = "L86"
    /\ IF BudgetSpent(count, num)
       THEN /\ BruteReturn(num, results)
            /\ UNCHANGED <<curReq, wordlistIdx>>
       ELSE IF WordlistDone(wordlistIdx, Config.Wordlist)
       THEN /\ curReq' = Nil
            /\ wordlistIdx' = 0
            /\ outPc' = "L74"
            /\ UNCHANGED <<mutex, out, num, count, results, word>>
       ELSE /\ word' = Config.Wordlist[wordlistIdx + 1]
            /\ wordlistIdx' = wordlistIdx + 1
            /\ outPc' = "L100"
            /\ UNCHANGED <<mutex, out, num, count, results, curReq>>
    /\ UNCHANGED <<mgr, Config, queue, filter>>
    /\ UNCHANGED <<altsVars, guessVars, inPc, inReq, guesses, stopPc>>
    /\ UNCHANGED <<accepted, taken, emitted, fresh>>

\* a word test that lets the empty word through
GoodWordAny(w) == TRUE

\* line 100: we have a good word
GoodWord(w) == w # ""

\* OutputNames, lines 100-108; r.curReq.Name of a nil r.curReq panics
BruteEmit ==
    /\ mgr = "brute"
    /\ outPc = "L100"
    /\ IF ~GoodWord(word)
       THEN /\ outPc' = "L86"
            /\ UNCHANGED <<count, results, emitted>>
       ELSE IF curReq = Nil
       THEN /\ outPc' = "panic"
            /\ UNCHANGED <<count, results, emitted>>
       ELSE /\ count' = count + 1
            /\ results' = Append(results, BruteName(word, curReq[1]))
            /\ emitted' = Append(emitted, BruteName(word, curReq[1]).Name)
            /\ outPc' = "L86"
    /\ UNCHANGED <<mgr, Config, bruteVars>>
    /\ UNCHANGED <<altsVars, guessVars, inPc, inReq, num, word, guesses, stopPc>>
    /\ UNCHANGED <<out, accepted, taken, fresh>>

\* Stop, line 117
BruteStop ==
    /\ mgr = "brute"
    /\ stopPc = "idle"
    /\ curReq' = Nil
    /\ stopPc' = "L118"
    /\ out' = NoOut
    /\ UNCHANGED <<mgr, Config, mutex, queue, filter, wordlistIdx>>
    /\ UNCHANGED <<altsVars, guessVars, inPc, inReq, outPc, outLocals>>
    /\ UNCHANGED <<accepted, taken, emitted, fresh>>

\* Stop, line 118
BruteStopIdx ==
    /\ mgr = "brute"
    /\ stopPc = "L118"
    /\ wordlistIdx' = 0
    /\ stopPc' = "L119"
    /\ UNCHANGED <<mgr, Config, mutex, queue, filter, curReq>>
    /\ UNCHANGED <<altsVars, guessVars, inPc, inReq, outPc, outLocals, history>>

\* a Stop that keeps the queue
BruteStopKeepsQueue ==
    /\ mgr = "brute"
    /\ stopPc = "L119"
    /\ stopPc' = "L120"
    /\ UNCHANGED <<mgr, Config, mutex, queue, filter, wordlistIdx, curReq>>
    /\ UNCHANGED <<altsVars, guessVars, inPc, inReq, outPc, outLocals, history>>

\* Stop, line 119
BruteStopQueue ==
    /\ mgr = "brute"
    /\ stopPc = "L119"
    /\ queue' = <<>>
    /\ stopPc' = "L120"
    /\ UNCHANGED <<mgr, Config, mutex, filter, wordlistIdx, curReq>>
    /\ UNCHANGED <<altsVars, guessVars, inPc, inReq, outPc, outLocals, history>>

\* Stop, lines 120-121; the caller goes on to position to ("idle": it may
\* call Stop again; "done": it calls Stop once, to end the enumeration)
BruteStopFilter(to) ==
    /\ mgr = "brute"
    /\ stopPc = "L120"
    /\ filter' = {}
    /\ stopPc' = to
    /\ fresh' = TRUE
    /\ accepted' = <<>>
    /\ taken' = <<>>
    /\ emitted' = <<>>
    /\ UNCHANGED <<mgr, Config, mutex, queue, wordlistIdx, curReq>>
    /\ UNCHANGED <<altsVars, guessVars, inPc, inReq, outPc, outLocals, out>>

----------------------------------------------------------------------------
(* AlterationsManager *)

\* NewAlterationsManager
NewAlterationsManager == \E cfg \in AltsConfigs : InitManager("alts", cfg)

\* the depth test of lines 163 and 282
TooShallow(req) == Len(req.Name) <= Len(req.Domain)

\* an InputName without the depth test
AltsRejectsAnyDepth(cfg, arg) ==
    \/ arg = Nil
    \/ arg[1].Name = EmptyStr
    \/ arg[1].Domain = EmptyStr
    \/ ~IsDomainInScope(SanitizeDNSRequest(arg[1]).Name)
    \/ ~cfg.Alterations

\* InputName, lines 148-165 (and, of GuessManager, lines 267-284)
AltsRejects(cfg, arg) ==
    \/ arg = Nil
    \/ arg[1].Name = EmptyStr
    \/ arg[1].Domain = EmptyStr
    \/ ~IsDomainInScope(SanitizeDNSRequest(arg[1]).Name)
    \/ ~cfg.Alterations
    \/ TooShallow(SanitizeDNSRequest(arg[1]))

\* InputName, lines 147-168
AltsInputName(arg) ==
    /\ mgr = "alts"
    /\ IF AltsRejects(Config, arg)
       THEN UNCHANGED inQueue
       ELSE /\ Len(inQueue) < MaxQueue
            /\ inQueue' = QueueAppend(inQueue, Queued(SanitizeDNSRequest(arg[1])))
    /\ out' = NoOut
    /\ fresh' = FALSE
    /\ UNCHANGED <<mgr, Config, bruteVars, outQueue, altState, guessVars>>
    /\ inReq' = [inReq EXCEPT !["t1"] = arg]
    /\ UNCHANGED <<inPc, outPc, outLocals, stopPc>>
    /\ UNCHANGED <<accepted, taken, emitted>>

\* the alteration engine (alts.State): what each operation makes of a name,
\* by its first label
WordLen(w) == IF w = "dev" THEN 3 ELSE 1

Relabel(name, labels) == { <<l>> \o Tail(name) : l \in labels }

FlipNumbers(st, name) ==
    Relabel(name, IF Head(name) = "a1" THEN {"a0"} ELSE {})

AppendNumbers(st, name) == Relabel(name, {Head(name) \o "0"})

FlipWords(st, name) ==
    Relabel(name,
        IF Head(name) = "x-y"
        THEN { st.Wordlist[i] \o "-y" :
                 i \in {j \in DOMAIN st.Wordlist :
                          WordLen(st.Wordlist[j]) >= st.MinForWordFlip} }
        ELSE {})

AddSuffixWord(st, name) ==
    Relabel(name, { Head(name) \o "-" \o st.Wordlist[i] : i \in DOMAIN st.Wordlist })

AddPrefixWord(st, name) ==
    Relabel(name, { st.Wordlist[i] \o "-" \o Head(name) : i \in DOMAIN st.Wordlist })

FuzzyLabelSearches(st, name) ==
    Relabel(name,
        IF st.EditDistance <= 0 THEN {}
        ELSE IF Head(name) = "a1"
        THEN (IF st.EditDistance >= 2 THEN {"a0", "b0"} ELSE {"a0"})
        ELSE IF Head(name) = "x-y"
        THEN (IF st.EditDistance >= 2 THEN {"x-z", "w-z"} ELSE {"x-z"})
        ELSE {})

\* a generateAlts that appends numbers whether or not the rule is enabled
AltNamesUngated(cfg, st, name) ==
    (IF cfg.FlipNumbers THEN FlipNumbers(st, name) ELSE {})
    \cup AppendNumbers(st, name)
    \cup (IF cfg.FlipWords THEN FlipWords(st, name) ELSE {})
    \cup (IF cfg.AddWords
          THEN AddSuffixWord(st, name) \cup AddPrefixWord(st, name) ELSE {})
    \cup (IF cfg.EditDistance > 0 THEN FuzzyLabelSearches(st, name) ELSE {})

\* generateAlts, lines 214-229: the set of names of the enabled rules
AltNames(cfg, st, name) ==
    (IF cfg.FlipNumbers THEN FlipNumbers(st, name) ELSE {})
    \cup (IF cfg.AddNumbers THEN AppendNumbers(st, name) ELSE {})
    \cup (IF cfg.FlipWords THEN FlipWords(st, name) ELSE {})
    \cup (IF cfg.AddWords
          THEN AddSuffixWord(st, name) \cup AddPrefixWord(st, name) ELSE {})
    \cup (IF cfg.EditDistance > 0 THEN FuzzyLabelSearches(st, name) ELSE {})

\* the orders in which a range over a set may visit it
Orders(S) ==
    { f \in [1..Cardinality(S) -> S] :
        \A i, j \in 1..Cardinality(S) : f[i] = f[j] => i = j }

\* the request generateAlts builds at lines 238-243
AltName(name, req) ==
    [Name |-> name, Domain |-> req.Domain, Tag |-> "ALT",
     Source |-> "Alterations"]

\* OutputNames, lines 171-176
AltsOutputNames(n) ==
    /\ mgr = "alts"
    /\ outPc = "idle"
    /\ IF ~Config.Alterations
       THEN /\ out' = Returned(n, <<>>)
            /\ UNCHANGED <<outPc, num>>
       ELSE /\ outPc' = "L178"
            /\ num' = n
            /\ out' = NoOut
    /\ UNCHANGED <<mgr, Config, bruteVars, altsVars, guessVars>>
    /\ UNCHANGED <<inPc, inReq, count, results, word, guesses, stopPc>>
    /\ UNCHANGED <<accepted, taken, emitted, fresh>>

\* OutputNames, lines 178-182, with the generateAlts call of line 179
\* (lines 204-247)
AltsRefill ==
    /\ mgr = "alts"
    /\ outPc = "L178"
    /\ IF ~(num > Len(outQueue))
       THEN /\ outPc' = "L184"
            /\ UNCHANGED <<inQueue, outQueue>>
       ELSE IF QueueEmpty(inQueue)
       THEN /\ outPc' = "L184"
            /\ UNCHANGED <<inQueue, outQueue>>
       ELSE LET req == QueueNext(inQueue)
                names == { name \in AltNames(Config, altState, req.Name) :
                             IsDomainInScope(name) }
            IN  /\ inQueue' = QueueRest(inQueue)
                /\ \E order \in Orders(names) :
                      outQueue' = outQueue \o
                          [i \in DOMAIN order |-> AltName(order[i], req)]
                /\ outPc' = IF Cardinality(names) = 0 THEN "L184" ELSE "L178"
    /\ UNCHANGED <<mgr, Config, bruteVars, altState, guessVars>>
    /\ UNCHANGED <<inPc, inReq, outLocals, stopPc, history>>

\* a drain that drops the names buffered beyond num
AltsDrainDropsRest ==
    /\ mgr = "alts"
    /\ outPc = "L184"
    /\ LET k == IF Len(outQueue) < num THEN Len(outQueue) ELSE num
       IN  out' = Returned(num, SubSeq(outQueue, 1, k))
    /\ outQueue' = <<>>
    /\ outPc' = "idle"
    /\ num' = 0
    /\ UNCHANGED <<mgr, Config, bruteVars, inQueue, altState, guessVars>>
    /\ UNCHANGED <<inPc, inReq, count, results, word, guesses, stopPc>>
    /\ UNCHANGED <<accepted, taken, emitted, fresh>>

\* OutputNames, lines 184-193
AltsDrain ==
    /\ mgr = "alts"
    /\ outPc = "L184"
    /\ LET k == IF Len(outQueue) < num THEN Len(outQueue) ELSE num
       IN  /\ out' = Returned(num, SubSeq(outQueue, 1, k))
           /\ outQueue' = SubSeq(outQueue, k + 1, Len(outQueue))
    /\ outPc' = "idle"
    /\ num' = 0
    /\ UNCHANGED <<mgr, Config, bruteVars, inQueue, altState, guessVars>>
    /\ UNCHANGED <<inPc, inReq, count, results, word, guesses, stopPc>>
    /\ UNCHANGED <<accepted, taken, emitted, fresh>>

\* Stop, lines 197-202
AltsStop ==
    /\ mgr = "alts"
    /\ stopPc = "idle"
    /\ inQueue' = <<>>
    /\ outQueue' = <<>>
    /\ altState' = NewState(Config.AltWordlist)
    /\ out' = NoOut
    /\ fresh' = TRUE
    /\ UNCHANGED <<mgr, Config, bruteVars, guessVars>>
    /\ UNCHANGED <<inPc, inReq, outPc, outLocals, stopPc>>
    /\ UNCHANGED <<accepted, taken, emitted>>

----------------------------------------------------------------------------
(* GuessManager *)

\* NewGuessManager
NewGuessManager == \E cfg \in GuessConfigs : InitManager("guess", cfg)

\* the fewest trainings OutputNames samples the model at (line 301)
MinTrainings == 50

MaxTrainings == 51

\* MarkovModel.Train
Train(model) == [model EXCEPT !.totalTrainings = @ + 1]

\* MarkovModel.TotalTrainings
TotalTrainings(model) == model.totalTrainings

\* the names the model may give: one is empty, one under no configured domain
GenNames == {
    EmptyStr,
    <<"g1", "example", "com">>,
    <<"g2", "example", "com">>,
    <<"g", "other", "org">> }

\* MarkovModel.GenerateNames(k): the sets of names k samples may hold
GenerateNames(model, k) ==
    { S \in SUBSET GenNames : Cardinality(S) <= k /\ (k > 0 => S # {}) }

\* InputName, lines 266-287
GuessInputName(arg) ==
    /\ mgr = "guess"
    /\ IF AltsRejects(Config, arg)
       THEN UNCHANGED markovModel
       ELSE /\ TotalTrainings(markovModel) < MaxTrainings
            /\ markovModel' = Train(markovModel)
    /\ out' = NoOut
    /\ fresh' = FALSE
    /\ UNCHANGED <<mgr, Config, bruteVars, altsVars, ttLastOutput>>
    /\ inReq' = [inReq EXCEPT !["t1"] = arg]
    /\ UNCHANGED <<inPc, outPc, outLocals, stopPc>>
    /\ UNCHANGED <<accepted, taken, emitted>>

\* a guard without the minimum of trainings
GuessReadyCold(trainings, last) == ~(trainings <= last)

\* a guard without the last-output checkpoint
GuessReadyStale(trainings, last) == ~(trainings < MinTrainings)

\* line 301: the model may be sampled
GuessReady(trainings, last) ==
    ~(trainings < MinTrainings \/ trainings <= last)

\* OutputNames, lines 290-309
GuessOutputNames(n) ==
    /\ mgr = "guess"
    /\ outPc = "idle"
    /\ IF ~Config.Alterations
          \/ ~GuessReady(TotalTrainings(markovModel), ttLastOutput)
       THEN /\ out' = Returned(n, <<>>)
            /\ UNCHANGED <<outPc, num, guesses, ttLastOutput, taken>>
       ELSE /\ ttLastOutput' = TotalTrainings(markovModel)
            /\ taken' = Append(taken, TotalTrainings(markovModel))
            /\ guesses' \in GenerateNames(markovModel, n * 2)
            /\ outPc' = "L310"
            /\ num' = n
            /\ out' = NoOut
    /\ UNCHANGED <<mgr, Config, bruteVars, altsVars, markovModel>>
    /\ UNCHANGED <<inPc, inReq, count, results, word, stopPc>>
    /\ UNCHANGED <<accepted, emitted, fresh>>

\* OutputNames, line 310: the set holds fewer than num names, so the loop
\* goes round
GuessTopUp ==
    /\ mgr = "guess"
    /\ outPc = "L310"
    /\ num > Cardinality(guesses)
    /\ outPc' = "L311"
    /\ UNCHANGED <<mgr, Config, bruteVars, altsVars, guessVars>>
    /\ UNCHANGED <<inPc, inReq, outLocals, stopPc>>
    /\ UNCHANGED history

\* OutputNames, line 311: one more round of sampling, which may add nothing
GuessSample ==
    /\ mgr = "guess"
    /\ outPc = "L311"
    /\ \E S \in GenerateNames(markovModel, num) : guesses' = guesses \cup S
    /\ outPc' = "L310"
    /\ UNCHANGED <<mgr, Config, bruteVars, altsVars, guessVars>>
    /\ UNCHANGED <<inPc, inReq, num, count, results, word, stopPc>>
    /\ UNCHANGED history

\* the request OutputNames builds at lines 326-331
GuessName(name) ==
    [Name |-> name, Domain |-> WhichDomain(name), Tag |-> "GUESS",
     Source |-> "Markov Model"]

\* a collection that discards no guess
KeptAll(names) == names

\* lines 320-323: the guesses that are kept
Kept(names) == { name \in names : ~(WhichDomain(name) = EmptyStr \/ name = EmptyStr) }

\* OutputNames, lines 314-334: the range visits the set in some order and
\* stops at num results
GuessCollect ==
    /\ mgr = "guess"
    /\ outPc = "L310"
    /\ ~(num > Cardinality(guesses))
    /\ \E order \in Orders(Kept(guesses)) :
          LET k == IF Len(order) < num THEN Len(order) ELSE num
          IN  out' = Returned(num, [i \in 1..k |-> GuessName(order[i])])
    /\ outPc' = "idle"
    /\ num' = 0
    /\ guesses' = {}
    /\ UNCHANGED <<mgr, Config, bruteVars, altsVars, guessVars>>
    /\ UNCHANGED <<inPc, inReq, count, results, word, stopPc>>
    /\ UNCHANGED <<accepted, taken, emitted, fresh>>

\* Stop, lines 344-347
GuessStop ==
    /\ mgr = "guess"
    /\ stopPc = "idle"
    /\ markovModel' = NewMarkovModel
    /\ out' = NoOut
    /\ fresh' = TRUE
    /\ UNCHANGED <<mgr, Config, bruteVars, altsVars, ttLastOutput>>
    /\ UNCHANGED <<inPc, inReq, outPc, outLocals, stopPc>>
    /\ taken' = <<>>
    /\ UNCHANGED <<accepted, emitted>>

----------------------------------------------------------------------------
(* Specifications *)

\* no call is in progress
Quiet ==
    /\ \A t \in Threads : inPc[t] = "idle"
    /\ outPc = "idle"
    /\ stopPc = "idle"

Init == NewBruteManager \/ NewAlterationsManager \/ NewGuessManager

\* calls made one after another
Next ==
    \/ Quiet /\ \E arg \in BruteArgs : BruteInputName("t1", arg)
    \/ BruteAppend("t1")
    \/ Quiet /\ \E n \in Nums : BruteOutputNames(n)
    \/ BruteNextBase
    \/ BruteNextWord
    \/ BruteEmit
    \/ Quiet /\ BruteStop
    \/ BruteStopIdx
    \/ BruteStopQueue
    \/ BruteStopFilter("idle")
    \/ Quiet /\ \E arg \in AltsArgs : AltsInputName(arg)
    \/ Quiet /\ \E n \in Nums : AltsOutputNames(n)
    \/ AltsRefill
    \/ AltsDrain
    \/ Quiet /\ AltsStop
    \/ Quiet /\ \E arg \in AltsArgs : GuessInputName(arg)
    \/ Quiet /\ \E n \in Nums : GuessOutputNames(n)
    \/ GuessTopUp
    \/ GuessSample
    \/ GuessCollect
    \/ Quiet /\ GuessStop

Spec == Init /\ [][Next]_vars

\* a BruteManager whose callers only call InputName and Stop, one call
\* after another (OutputNames neither reads nor writes the filter)
InitAccept ==
    \E cfg \in BruteConfigs : cfg.Wordlist = <<>> /\ InitManager("brute", cfg)

NextAccept ==
    \/ Quiet /\ \E t \in Threads, arg \in BruteArgs : BruteInputName(t, arg)
    \/ \E t \in Threads : BruteAppend(t)
    \/ Quiet /\ BruteStop
    \/ BruteStopIdx
    \/ BruteStopQueue
    \/ BruteStopFilter("idle")

SpecAccept == InitAccept /\ [][NextAccept]_vars

\* the requests of the concurrent callers
ConcArgs == {
    <<[Name |-> <<"a", "example", "com">>, Domain |-> <<"example", "com">>,
       Records |-> {}]>>,
    <<[Name |-> <<"b", "example", "com">>, Domain |-> <<"example", "com">>,
       Records |-> {"A"}]>>,
    <<[Name |-> <<"a", "example", "com">>, Domain |-> <<"example", "com">>,
       Records |-> {"CNAME"}]>> }

\* a BruteManager with brute forcing enabled and a full-length wordlist
InitConc ==
    \E cfg \in BruteConfigs :
        /\ cfg.BruteForcing
        /\ Len(cfg.Wordlist) = MaxWords
        /\ InitManager("brute", cfg)

\* goroutines calling InputName while one caller runs OutputNames
NextInOut ==
    \/ \E t \in Threads, arg \in ConcArgs : BruteInputName(t, arg)
    \/ \E t \in Threads : BruteAppend(t)
    \/ \E n \in Nums : BruteOutputNames(n)
    \/ BruteNextBase
    \/ BruteNextWord
    \/ BruteEmit

SpecInOut == InitConc /\ [][NextInOut]_vars

\* a call of OutputNames in progress goes on
OutputStep == BruteNextBase \/ BruteNextWord \/ BruteEmit

\* ... and the single caller of OutputNames pulls on a periodic schedule: a
\* call in progress goes on, and a call with a positive num is made again
\* and again
SpecInOutFair ==
    /\ SpecInOut
    /\ WF_vars(OutputStep)
    /\ SF_vars(\E n \in 1..MaxNum : BruteOutputNames(n))

\* ... and a goroutine that calls Stop, which takes no lock, once
NextConc ==
    \/ \E arg \in ConcArgs : BruteInputName("t1", arg)
    \/ BruteAppend("t1")
    \/ \E n \in Nums : BruteOutputNames(n)
    \/ BruteNextBase
    \/ BruteNextWord
    \/ BruteEmit
    \/ BruteStop
    \/ BruteStopIdx
    \/ BruteStopQueue
    \/ BruteStopFilter("done")

\* ... over one wordlist of the full length, without an empty entry
InitStop ==
    \E cfg \in BruteConfigs :
        /\ cfg.BruteForcing
        /\ cfg.Wordlist = [i \in 1..MaxWords |-> "www"]
        /\ InitManager("brute", cfg)

SpecConc == InitStop /\ [][NextConc]_vars

\* the owner of the configuration switches brute forcing on or off between
\* the calls (r.enum.Config points to a configuration the managers share
\* with the rest of the enumeration)
SetBruteForcing(b) ==
    /\ mgr = "brute"
    /\ Config.BruteForcing # b
    /\ Config' = [Config EXCEPT !.BruteForcing = b]
    /\ UNCHANGED <<mgr, bruteVars, altsVars, guessVars>>
    /\ UNCHANGED <<inPc, inReq, outPc, outLocals, stopPc, history>>

\* a BruteManager whose flag is switched between calls made one at a time
NextFlag ==
    \/ Quiet /\ \E arg \in ConcArgs : BruteInputName("t1", arg)
    \/ BruteAppend("t1")
    \/ Quiet /\ \E n \in Nums : BruteOutputNames(n)
    \/ BruteNextBase
    \/ BruteNextWord
    \/ BruteEmit
    \/ Quiet /\ \E b \in BOOLEAN : SetBruteForcing(b)

SpecFlag == InitConc /\ [][NextFlag]_vars

\* an AlterationsManager with Alterations enabled: goroutines call
\* InputName while one caller runs OutputNames, and Stop between the calls
InitAlts ==
    \E cfg \in AltsConfigs : cfg.Alterations /\ InitManager("alts", cfg)

\* the requests of the concurrent callers: two that are taken, and the
\* domain itself, which is not
AltsConcArgs ==
    { arg \in AltsArgs :
        /\ arg # Nil
        /\ arg[1].Name \in { <<"a1", "example", "com">>,
                             <<"x-y", "example", "com">>,
                             <<"example", "com">> }
        /\ arg[1].Domain = <<"example", "com">> }

NextAlts ==
    \/ \E arg \in AltsConcArgs : AltsInputName(arg)
    \/ \E n \in Nums : AltsOutputNames(n)
    \/ AltsRefill
    \/ AltsDrain
    \/ Quiet /\ AltsStop

SpecAlts == InitAlts /\ [][NextAlts]_vars

\* a num above the number of distinct names the model can give
Ask == Cardinality(GenNames) + 1

\* a GuessManager with guessing enabled, its calls made one at a time
InitGuess ==
    \E cfg \in GuessConfigs : cfg.Alterations /\ InitManager("guess", cfg)

NextGuess ==
    \/ Quiet /\ \E arg \in AltsArgs : GuessInputName(arg)
    \/ Quiet /\ \E n \in Nums \cup {Ask} : GuessOutputNames(n)
    \/ GuessTopUp
    \/ GuessSample
    \/ GuessCollect

SpecGuess == InitGuess /\ [][NextGuess]_vars

\* a round of sampling that adds a name to the set
GuessSampleNew == GuessSample /\ guesses' # guesses

\* ... where a call of OutputNames in progress goes on, and the rounds of
\* sampling add a new name, again and again, as long as the model has one
\* to give
SpecGuessFair ==
    /\ SpecGuess
    /\ WF_vars(GuessTopUp)
    /\ WF_vars(GuessSample)
    /\ SF_vars(GuessSampleNew)
    /\ WF_vars(GuessCollect)

----------------------------------------------------------------------------
(* What the claims speak of *)

NonEmptyWords(wordlist) == SelectSeq(wordlist, LAMBDA w : w # "")

CountEmpty(wordlist) == Cardinality({i \in DOMAIN wordlist : wordlist[i] = ""})

\* word+"."+base for the non-empty words, in wordlist order
ExpandBase(wordlist, req) ==
    [i \in 1..Len(NonEmptyWords(wordlist)) |->
        <<NonEmptyWords(wordlist)[i]>> \o req.Name]

\* ... for every base, in the order of the bases
RECURSIVE ExpandAll(_, _)
ExpandAll(wordlist, reqs) ==
    IF reqs = <<>> THEN <<>>
    ELSE ExpandBase(wordlist, Head(reqs)) \o ExpandAll(wordlist, Tail(reqs))

\* the names the cursor still owes for the current base: the word an
\* OutputNames in progress holds, then the words from wordlistIdx on
RestOfCur ==
    IF curReq = Nil THEN <<>>
    ELSE (IF outPc = "L100" /\ word # ""
          THEN << <<word>> \o curReq[1].Name >> ELSE <<>>)
         \o ExpandBase(SubSeq(Config.Wordlist, wordlistIdx + 1,
                              Len(Config.Wordlist)), curReq[1])

\* an OutputNames call with a positive num has just returned nothing
ReturnedNothing ==
    /\ out # NoOut
    /\ out[1].num > 0
    /\ out[1].results = <<>>

\* C1: Expansion completeness.  With brute forcing enabled and calls made
\* one after another, the names returned so far followed by the names the
\* cursor and the queue still stand for are exactly word+"."+base for the
\* accepted bases in FIFO order and the non-empty words in wordlist order,
\* however the batch sizes split the traversal; and when a call with a
\* positive num returns nothing, the names returned are that whole list,
\* (W-E)*B of them.
C1_ExpansionComplete ==
    (mgr = "brute" /\ Config.BruteForcing /\ stopPc = "idle") =>
        /\ emitted \o RestOfCur \o ExpandAll(Config.Wordlist, queue)
             = ExpandAll(Config.Wordlist, accepted)
        /\ ReturnedNothing =>
             /\ emitted = ExpandAll(Config.Wordlist, accepted)
             /\ Len(emitted) =
                  (Len(Config.Wordlist) - CountEmpty(Config.Wordlist))
                    * Len(accepted)

\* C1 witness: two bases were expanded over a wordlist with an empty and a
\* non-empty entry, and a call with a positive num returned nothing.
C1_Witness ==
    /\ mgr = "brute"
    /\ ReturnedNothing
    /\ Len(accepted) >= 2
    /\ CountEmpty(Config.Wordlist) >= 1
    /\ Len(emitted) >= 2

\* C2: Concurrent accept safety.  With goroutines calling InputName while a
\* single caller runs OutputNames, in every interleaving the requests
\* enqueued are, in the order of their appends, those taken as the current
\* base followed by those still queued (none is lost, none is taken
\* twice); r.curReq is the last one taken; and the names put in results,
\* followed by what the cursor owes for the current base, are the whole
\* wordlist expansion of the bases taken: no pair twice, none skipped.
\* And, the caller pulling on, each request enqueued is later taken.
C2_ConcurrentAccept ==
    /\ [](mgr = "brute" =>
            /\ outPc # "panic"
            /\ taken \o queue = accepted
            /\ curReq # Nil => (taken # <<>> /\ curReq[1] = taken[Len(taken)])
            /\ emitted \o RestOfCur = ExpandAll(Config.Wordlist, taken))
    /\ \A i \in 1..Cardinality(ConcArgs) :
            (Len(accepted) >= i) ~> (Len(taken) >= i)

\* C2 witness: an InputName is between its filter check and its append
\* while OutputNames, which has returned a name of the first base, holds
\* the next word of a wordlist with an empty entry.
C2_Witness ==
    /\ mgr = "brute"
    /\ \E t \in Threads : inPc[t] = "L57"
    /\ outPc = "L100"
    /\ taken # <<>>
    /\ emitted # <<>>
    /\ CountEmpty(Config.Wordlist) >= 1

\* C3 as claimed: a Stop running concurrently with an OutputNames leaves
\* r.curReq alone in the middle of that OutputNames, so that OutputNames
\* never emits a candidate from a cleared (nil) current base.
C3_Original ==
    /\ outPc # "panic"
    /\ (outPc = "L100" /\ word # "") => curReq # Nil

WellFormed(arg) ==
    /\ arg # Nil
    /\ arg[1].Name # EmptyStr
    /\ arg[1].Domain # EmptyStr

\* no records attached, or an address record and no CNAME
RecordsAllow(req) ==
    \/ req.Records = {}
    \/ ("A" \in req.Records /\ "CNAME" \notin req.Records)

\* the names InputName has enqueued, or is about to
AcceptedNames ==
    {accepted[i].Name : i \in DOMAIN accepted}
      \cup {inReq[t][1].Name : t \in {u \in Threads : inReq[u] # Nil}}

\* the filter of the claim, given the names that count as duplicates
PassesAccept(arg, dups) ==
    /\ WellFormed(arg)
    /\ Config.BruteForcing
    /\ IsDomainInScope(LowerName(arg[1].Name))
    /\ LowerName(arg[1].Name) \notin dups
    /\ RecordsAllow(arg[1])

\* whether InputName, called now with arg, would enqueue it
BruteAccepts(arg) == ~BruteRejects(filter, Config, arg)

----------------------------------------------------------------------------
(* GuessManager.Stop and the guard of GuessManager.OutputNames *)

\* C4: Stop discards the model and the training counters.  After Stop, and
\* until the next InputName, the total of trainings and the last-output
\* checkpoint are both back at their initial value 0; and once the new
\* model has been trained MinTrainings times, with no OutputNames having
\* passed the guard since the Stop, the next OutputNames passes the guard.
C4_Original ==
    (mgr = "guess" /\ Config.Alterations) =>
        /\ fresh => (TotalTrainings(markovModel) = 0 /\ ttLastOutput = 0)
        /\ (taken = <<>> /\ TotalTrainings(markovModel) >= MinTrainings) =>
              GuessReady(TotalTrainings(markovModel), ttLastOutput)

\* C5: Stop, then OutputNames(n) with no InputName in between, returns no
\* names, for each manager and every n.
C5_StopThenEmpty ==
    (out # NoOut /\ out[1].fresh) => out[1].results = <<>>

\* C5 witness: an OutputNames(n), n > 0, has returned after a Stop of a
\* GuessManager whose model had been sampled before the Stop.
C5_Witness ==
    /\ mgr = "guess"
    /\ out # NoOut
    /\ out[1].fresh
    /\ out[1].num > 0
    /\ out[1].last >= MinTrainings

\* C6: OutputNames(n) returns between 0 and n names, for each manager,
\* in every state and for every n >= 0.
C6_ProduceBound ==
    out # NoOut => Len(out[1].results) <= out[1].num

\* C6 witness: an OutputNames(n) of an AlterationsManager returned n > 0
\* names and left more of them in the output queue.
C6_Witness ==
    /\ mgr = "alts"
    /\ out # NoOut
    /\ out[1].num > 0
    /\ Len(out[1].results) = out[1].num
    /\ outQueue # <<>>

\* an OutputNames call that comes back at once, with nothing
GuessReturnsNothing(n) ==
    /\ out' = Returned(n, <<>>)
    /\ out'[1].results = <<>>
    /\ outPc' = "idle"
    /\ UNCHANGED <<markovModel, ttLastOutput>>

\* C8: Cold-start guard.  Wherever the model has been trained fewer than 50
\* times, OutputNames(n) returns no names and leaves the last-output
\* checkpoint as it was, every time it is called.
C8_ColdStart ==
    [][\A n \in Nums :
         (GuessOutputNames(n) /\ TotalTrainings(markovModel) < 50) =>
             GuessReturnsNothing(n)]_vars

\* C8 witness: OutputNames(n), n > 0, has returned from a model trained at
\* least once and fewer than 50 times, with guessing enabled.
C8_Witness ==
    /\ mgr = "guess"
    /\ Config.Alterations
    /\ out # NoOut
    /\ out[1].num > 0
    /\ out[1].trainings > 0
    /\ out[1].trainings < 50
    /\ out[1].results = <<>>

\* the states of the guard: trained enough, and not trained since the
\* checkpoint was recorded
Ready == TotalTrainings(markovModel) >= 50

Stale == TotalTrainings(markovModel) <= ttLastOutput

\* C9: Stale guard.  An OutputNames that passes the guard (trainings >= 50
\* and above the checkpoint) records the checkpoint, which moves the
\* manager from ready to stale; in a stale state every OutputNames returns
\* no names and changes nothing, so that only a further training ends it;
\* and names are only ever returned by a call that found the manager ready
\* and not stale.
C9_StaleGuard ==
    /\ [][\A n \in Nums : GuessOutputNames(n) =>
            /\ (Config.Alterations /\ Ready /\ ~Stale) =>
                  (ttLastOutput' = TotalTrainings(markovModel) /\ Stale'
                   /\ outPc' = "L310")
            /\ Stale => GuessReturnsNothing(n)
            /\ (outPc' = "L310") => (Ready /\ ~Stale)]_vars
    /\ [][(mgr = "guess" /\ Stale /\ ~Stale') =>
            TotalTrainings(markovModel') > TotalTrainings(markovModel)]_vars
    /\ []((mgr = "guess" /\ out # NoOut /\ out[1].results # <<>>) =>
            (out[1].trainings >= 50 /\ out[1].last = out[1].trainings))

\* C9 witness: with guessing enabled and names returned before, an
\* OutputNames(n), n > 0, has returned nothing from a model trained 50
\* times or more and not since the checkpoint.
C9_Witness ==
    /\ mgr = "guess"
    /\ Config.Alterations
    /\ out # NoOut
    /\ out[1].num > 0
    /\ out[1].results = <<>>
    /\ out[1].trainings >= 50
    /\ out[1].last = out[1].trainings

----------------------------------------------------------------------------
(* The depth filter of AlterationsManager.InputName and GuessManager.InputName *)

\* the number of dot-separated labels
Depth(name) == Len(name)

\* whether InputName, called now with arg, would enqueue it or train on it
AltsAccepts(arg) == ~AltsRejects(Config, arg)

\* what InputName does with a request it takes
AltsTakes(arg) ==
    /\ mgr = "alts" =>
          inQueue' = Append(inQueue, Queued(SanitizeDNSRequest(arg[1])))
    /\ mgr = "guess" =>
          TotalTrainings(markovModel') = TotalTrainings(markovModel) + 1

\* C10: Depth filter.  For the AlterationsManager and the GuessManager,
\* InputName of a request (with a name and a domain, as every request has)
\* whose name has no more labels than its domain changes no state of the
\* manager: nothing is queued, the model is not trained; a name strictly
\* deeper than its domain, in scope and with the feature enabled, is
\* queued or trained on.
C10_DepthFilter ==
    /\ [](mgr \in {"alts", "guess"} =>
            \A arg \in AltsArgs : WellFormed(arg) =>
                /\ Depth(arg[1].Name) <= Depth(arg[1].Domain) => ~AltsAccepts(arg)
                /\ (/\ Depth(arg[1].Name) > Depth(arg[1].Domain)
                    /\ IsDomainInScope(LowerName(arg[1].Name))
                    /\ Config.Alterations) => AltsAccepts(arg))
    /\ [][\A arg \in AltsArgs : (AltsInputName(arg) \/ GuessInputName(arg)) =>
            IF AltsAccepts(arg)
            THEN AltsTakes(arg)
            ELSE UNCHANGED <<inQueue, outQueue, altState, markovModel,
                             ttLastOutput>>]_vars

\* C10 witness: with the feature enabled, the last InputName was given an
\* in-scope name no deeper than its domain, after names had been taken.
C10_Witness ==
    /\ mgr \in {"alts", "guess"}
    /\ Config.Alterations
    /\ Quiet
    /\ out = NoOut
    /\ ~fresh
    /\ (inQueue # <<>> \/ TotalTrainings(markovModel) > 0)
    /\ inReq["t1"] # Nil
    /\ WellFormed(inReq["t1"])
    /\ IsDomainInScope(LowerName(inReq["t1"][1].Name))
    /\ Depth(inReq["t1"][1].Name) <= Depth(inReq["t1"][1].Domain)

----------------------------------------------------------------------------
(* The feature flags *)

\* C11: Expansion disabled flag.  Whenever brute forcing is off,
\* BruteManager.OutputNames(n) returns no names, for every n, whatever is
\* queued and wherever the cursor stands, and leaves the queue and the
\* cursor (curReq, wordlistIdx) as they were.
C11_DisabledFlag ==
    [][\A n \in Nums :
         (BruteOutputNames(n) /\ ~Config.BruteForcing) =>
             /\ out' # NoOut
             /\ out'[1].num = n
             /\ out'[1].results = <<>>
             /\ outPc' = "idle"
             /\ UNCHANGED <<queue, curReq, wordlistIdx, filter>>]_vars

\* C11 witness: with brute forcing switched off, a request queued and the
\* cursor in the middle of a base, OutputNames(n), n > 0, returned nothing.
C11_Witness ==
    /\ mgr = "brute"
    /\ ~Config.BruteForcing
    /\ out # NoOut
    /\ out[1].num > 0
    /\ out[1].results = <<>>
    /\ queue # <<>>
    /\ curReq # Nil
    /\ wordlistIdx > 0

\* every alteration rule is switched off
RulesOff(cfg) ==
    /\ ~cfg.FlipNumbers
    /\ ~cfg.AddNumbers
    /\ ~cfg.FlipWords
    /\ ~cfg.AddWords
    /\ ~(cfg.EditDistance > 0)

\* C12: Mutation rule gating.  With Alterations enabled and every rule
\* off (no number flipping or appending, no word flipping or insertion,
\* edit distance not positive), every AlterationsManager.OutputNames
\* returns no names, whatever was accepted, and the output queue stays
\* empty.
C12_RuleGating ==
    (mgr = "alts" /\ Config.Alterations /\ RulesOff(Config)) =>
        /\ outQueue = <<>>
        /\ out # NoOut => out[1].results = <<>>

\* C12 witness: with Alterations enabled and every rule off, an
\* OutputNames(n), n > 0, returned nothing, having expanded the first of
\* the accepted requests; another one is still queued.
C12_Witness ==
    /\ mgr = "alts"
    /\ Config.Alterations
    /\ RulesOff(Config)
    /\ out # NoOut
    /\ out[1].num > 0
    /\ out[1].results = <<>>
    /\ inQueue # <<>>

----------------------------------------------------------------------------
(* The queues of the AlterationsManager *)

\* C13: Mutation refill loop.  In AlterationsManager.OutputNames(n) the
\* expansion step repeats until the output queue holds n names or the
\* input queue is exhausted: with the calls made one at a time, whenever
\* OutputNames(n) returns fewer than n names the input queue is empty when
\* it returns.
C13_Original ==
    (mgr = "alts" /\ out # NoOut /\ Len(out[1].results) < out[1].num) =>
        inQueue = <<>>

----------------------------------------------------------------------------
(* The sampling of GuessManager.OutputNames *)

\* C14: Sequence Produce terminates.  Every GuessManager.OutputNames(n)
\* that has passed the guard returns: the rounds of sampling end, also
\* when the model can only give fewer than n distinct names.
C14_Original ==
    (mgr = "guess" /\ outPc = "L310") ~> (outPc = "idle")

----------------------------------------------------------------------------
(* AlterationsManager.Stop *)

\* C15: Mutation Reset reinitializes the engine from configuration.  After
\* AlterationsManager.Stop, and until the next InputName, the engine state
\* holds the configured wordlist and the configured thresholds
\* (MinForWordFlip, EditDistance), as after NewAlterationsManager, and
\* both queues are empty.
C15_Original ==
    (mgr = "alts" /\ fresh) =>
        /\ altState = NewAltState(Config)
        /\ altState.Wordlist = Config.AltWordlist
        /\ altState.MinForWordFlip = Config.MinForWordFlip
        /\ altState.EditDistance = Config.EditDistance
        /\ inQueue = <<>>
        /\ outQueue = <<>>

----------------------------------------------------------------------------
(* The batches of BruteManager.OutputNames *)

Min(a, b) == IF a < b THEN a ELSE b

\* the (non-empty word, base) pairs not yet emitted when the OutputNames
\* that has just returned was called: those of every request enqueued,
\* less the names earlier calls returned
PairsLeftAtCall ==
    Len(ExpandAll(Config.Wordlist, accepted))
        - (Len(emitted) - Len(out[1].results))

\* C16: Expansion batch size with empty-word skip.  With brute forcing
\* enabled, OutputNames(n), n >= 0, returns exactly min(n, R) names, R the
\* number of (non-empty word, base) pairs not yet emitted when it is
\* called; no returned name starts with an empty word, so empty entries
\* are passed over without counting against n; and it returns fewer than
\* n only when the queue is drained and no current base is left.
C16_BatchSize ==
    (mgr = "brute" /\ Config.BruteForcing /\ out # NoOut) =>
        /\ Len(out[1].results) = Min(out[1].num, PairsLeftAtCall)
        /\ \A i \in DOMAIN out[1].results : Head(out[1].results[i].Name) # ""
        /\ Len(out[1].results) < out[1].num =>
              (queue = <<>> /\ curReq = Nil /\ wordlistIdx = 0)

\* C16 witness: over a wordlist that starts with an empty entry,
\* OutputNames(n), n > 0, returned n names and left pairs for later.
C16_Witness ==
    /\ mgr = "brute"
    /\ Config.BruteForcing
    /\ Len(Config.Wordlist) >= 2
    /\ Config.Wordlist[1] = ""
    /\ out # NoOut
    /\ out[1].num > 0
    /\ Len(out[1].results) = out[1].num
    /\ PairsLeftAtCall > out[1].num

----------------------------------------------------------------------------
(* InputName with the feature switched off *)

\* C17: Disabled-feature Accept is a no-op.  With brute forcing off,
\* BruteManager.InputName leaves the queue, the filter and the cursor as
\* they were (the name is not recorded as seen); with Alterations off,
\* AlterationsManager.InputName leaves both queues and
\* GuessManager.InputName leaves the model's trainings as they were.  So
\* a manager whose feature is off holds nothing.
C17_DisabledAccept ==
    /\ [][/\ (mgr = "brute" /\ ~Config.BruteForcing) =>
               \A arg \in BruteArgs : BruteInputName("t1", arg) =>
                   UNCHANGED <<queue, filter, curReq, wordlistIdx, inPc>>
          /\ (mgr = "alts" /\ ~Config.Alterations) =>
               \A arg \in AltsArgs : AltsInputName(arg) =>
                   UNCHANGED <<inQueue, outQueue, altState>>
          /\ (mgr = "guess" /\ ~Config.Alterations) =>
               \A arg \in AltsArgs : GuessInputName(arg) =>
                   UNCHANGED <<markovModel, ttLastOutput>>]_vars
    /\ []((mgr = "brute" /\ ~Config.BruteForcing) =>
             (queue = <<>> /\ filter = {} /\ curReq = Nil /\ wordlistIdx = 0))
    /\ []((mgr = "alts" /\ ~Config.Alterations) =>
             (inQueue = <<>> /\ outQueue = <<>>))
    /\ []((mgr = "guess" /\ ~Config.Alterations) =>
             TotalTrainings(markovModel) = 0)

\* C17 witness: with Alterations off, the last InputName was given a
\* request that only the flag keeps out (in scope, deeper than its domain).
C17_Witness ==
    /\ mgr \in {"alts", "guess"}
    /\ ~Config.Alterations
    /\ Quiet
    /\ out = NoOut
    /\ ~fresh
    /\ WellFormed(inReq["t1"])
    /\ IsDomainInScope(LowerName(inReq["t1"][1].Name))
    /\ Depth(inReq["t1"][1].Name) > Depth(inReq["t1"][1].Domain)

----------------------------------------------------------------------------
(* The names GuessManager.OutputNames returns *)

\* a sampled name that is not empty and belongs to a configured domain
Resolves(name) == name # EmptyStr /\ WhichDomain(name) # EmptyStr

\* C18: Sequence domain resolution.  Every request GuessManager.OutputNames
\* returns has a non-empty name, a non-empty domain that is the scope
\* lookup's answer for the name, and the guess tag; a sampled name that is
\* empty or belongs to no configured domain is not returned and does not
\* count toward n: the call returns n names if that many of the sampled
\* names resolve, and all that resolve otherwise.
C18_DomainResolution ==
    /\ []((mgr = "guess" /\ out # NoOut) =>
            \A i \in DOMAIN out[1].results :
                /\ out[1].results[i].Name # EmptyStr
                /\ out[1].results[i].Domain # EmptyStr
                /\ out[1].results[i].Domain = WhichDomain(out[1].results[i].Name)
                /\ out[1].results[i].Tag = "GUESS"
                /\ \A j \in DOMAIN out[1].results :
                      out[1].results[i].Name = out[1].results[j].Name => i = j)
    /\ [][GuessCollect =>
            /\ Len(out'[1].results) =
                  Min(num, Cardinality({name \in guesses : Resolves(name)}))
            /\ \A i \in DOMAIN out'[1].results :
                  out'[1].results[i].Name \in guesses]_vars

\* C18 witness: OutputNames(n) returned some names, fewer than n, from a
\* sample of at least n names: the others did not resolve.
C18_Witness ==
    /\ mgr = "guess"
    /\ out # NoOut
    /\ out[1].results # <<>>
    /\ Len(out[1].results) < out[1].num

----------------------------------------------------------------------------
(* The buffers of the AlterationsManager *)

\* the names of a sequence of requests
NamesOf(reqs) == { reqs[i].Name : i \in DOMAIN reqs }

\* C19: Mutation buffer exactly-once.  Between Stops and with a single
\* OutputNames caller, (1) a request leaves the input queue only from its
\* head, taken by the expansion step, which appends its in-scope
\* alterations, each once and under the request's domain, to the tail of
\* the output queue; (2) OutputNames(n) returns the first min(n, length)
\* requests of the output queue in their order and leaves the rest, in
\* order, for later calls; (3) InputName only appends to the input queue
\* and leaves the output queue alone.
C19_BufferOnce ==
    /\ [][(AltsRefill /\ inQueue' # inQueue) =>
            /\ inQueue # <<>>
            /\ inQueue' = Tail(inQueue)
            /\ Len(outQueue') >= Len(outQueue)
            /\ SubSeq(outQueue', 1, Len(outQueue)) = outQueue
            /\ LET new == SubSeq(outQueue', Len(outQueue) + 1, Len(outQueue'))
               IN  /\ Cardinality(NamesOf(new)) = Len(new)
                   /\ NamesOf(new) =
                        { name \in AltNames(Config, altState, Head(inQueue).Name) :
                            IsDomainInScope(name) }
                   /\ \A i \in DOMAIN new :
                        new[i].Domain = Head(inQueue).Domain]_vars
    /\ [][(AltsRefill /\ inQueue' = inQueue) => outQueue' = outQueue]_vars
    /\ [][AltsDrain =>
            /\ out'[1].results \o outQueue' = outQueue
            /\ Len(out'[1].results) = Min(num, Len(outQueue))
            /\ inQueue' = inQueue]_vars
    /\ [][\A arg \in AltsArgs : AltsInputName(arg) =>
            /\ outQueue' = outQueue
            /\ Len(inQueue') >= Len(inQueue)
            /\ SubSeq(inQueue', 1, Len(inQueue)) = inQueue]_vars

\* C19 witness: an OutputNames(n) returned n > 0 names, left buffered names
\* for a later call, and left a request on the input queue unexpanded.
C19_Witness ==
    /\ mgr = "alts"
    /\ out # NoOut
    /\ out[1].num > 0
    /\ Len(out[1].results) = out[1].num
    /\ outQueue # <<>>
    /\ inQueue # <<>>

----------------------------------------------------------------------------
(* The cursor of the BruteManager *)

\* C20: Expansion cursor invariant.  In every state between calls of
\* InputName, OutputNames and Stop on a BruteManager,
\* 0 <= wordlistIdx <= len(wordlist), and wordlistIdx = 0 whenever curReq
\* is nil; a request is taken from the queue only when curReq is nil; and
\* OutputNames (OutputNames(0) too) gives up its current base only when
\* wordlistIdx has reached the end of the wordlist.
C20_CursorInvariant ==
    /\ []((mgr = "brute" /\ Quiet) =>
            /\ 0 <= wordlistIdx
            /\ wordlistIdx <= Len(Config.Wordlist)
            /\ curReq = Nil => wordlistIdx = 0)
    /\ [][(mgr = "brute" /\ stopPc = "idle" /\ stopPc' = "idle") =>
            /\ (queue' # queue /\ Len(queue') <= Len(queue)) =>
                  (curReq = Nil /\ curReq' = <<Head(queue)>>
                   /\ queue' = Tail(queue) /\ wordlistIdx' = 0)
            /\ (curReq # Nil /\ curReq' # curReq) =>
                  (wordlistIdx = Len(Config.Wordlist) /\ curReq' = Nil
                   /\ wordlistIdx' = 0)]_vars

\* C20 witness: between calls, OutputNames(0) has returned with the cursor
\* in the middle of the wordlist of its current base and a request queued.
C20_Witness ==
    /\ mgr = "brute"
    /\ Quiet
    /\ out # NoOut
    /\ out[1].num = 0
    /\ curReq # Nil
    /\ wordlistIdx > 0
    /\ wordlistIdx < Len(Config.Wordlist)
    /\ queue # <<>>

====
